---------------------------- MODULE Spec2Model ----------------------------
(***************************************************************************)
(* PprofProfileComputer of src/tools/protoprofile/main.cc: the two         *)
(* interning tables, the per-path statistics and the assembly of the pprof *)
(* profile, as a state machine over the blocks of Compute.                 *)
(*                                                                         *)
(* The profile under construction is the sequence of top-level fields in   *)
(* the order protozero appends them to the buffer; SerializeAsString       *)
(* returns that sequence, and a reader decodes it by selecting the fields  *)
(* of one tag in order of appearance.                                      *)
(***************************************************************************)
EXTENDS Integers, Sequences, FiniteSets, TLC

(* ------------------------------ bounds -------------------------------- *)

\* Field names in the keys of the walker's result, over all its paths.
MaxPathElements == 4
\* Field occurrences in the walked message: sizes over all paths together.
MaxOccurrences == 3
\* Both of the above where the walker's contract or the single use of a
\* computer is not assumed (SpecEmptySizes, SpecReuse).
MaxProbe == 2
\* Compute calls on one computer in SpecReuse.
MaxInvocations == 2

\* Field names of the walked schema; "bytes" is also a sample-type unit.
FieldNames == {"a", "bytes"}
\* Encoded sizes of one field occurrence.
SizeValues == {1, 2}
\* What an out-of-bounds read of an empty vector may yield.
GarbageValues == {0, 7}

(* ------------------------------ state --------------------------------- *)

VARIABLES
  strings_,               \* std::vector<std::string> strings_
  string_to_id_,          \* FlatHashMap<std::string, int> string_to_id_
  locations_,             \* FlatHashMap<std::string, int> locations_
  pc,                     \* position in Compute
  field_path_to_samples,  \* the walker's result, sorted in place per path
  pathsVisited,           \* keys the sample loop's iterator has passed
  locsVisited,            \* keys the location loop's iterator has passed
  profile,                \* fields appended to the HeapBuffered<Profile>
  result,                 \* what Compute returned, <<>> before it returns
  invocations,            \* Compute calls started on this computer
  walked,                 \* history: the walker's result as returned
  sampleKeys,             \* history: the path of each Sample, in order
  stringCalls,            \* history: every InternString call
  locationCalls           \* history: every InternLocation call

vars == <<strings_, string_to_id_, locations_, pc, field_path_to_samples,
          pathsVisited, locsVisited, profile, result, invocations, walked,
          sampleKeys, stringCalls, locationCalls>>

(* ----------------------------- helpers -------------------------------- *)

EmptyMap == [x \in {} |-> 0]

RECURSIVE SumSeq(_)
SumSeq(s) == IF s = <<>> THEN 0 ELSE Head(s) + SumSeq(Tail(s))

RECURSIVE SeqsUpTo(_, _)
SeqsUpTo(S, n) == IF n = 0 THEN {<<>>}
                  ELSE LET shorter == SeqsUpTo(S, n - 1)
                       IN shorter \cup {Append(s, x) : s \in shorter, x \in S}

\* Sets of field paths (root to leaf) of at most e field names together.
RECURSIVE KeySets(_)
KeySets(e) ==
  {{}} \cup UNION { { K \cup {field_path} :
                       K \in KeySets(e - Len(field_path)) }
                   : field_path \in SeqsUpTo(FieldNames, e) \ {<<>>} }

RECURSIVE Occurrences(_, _)
Occurrences(m, K) ==
  IF K = {} THEN 0
  ELSE LET p == CHOOSE q \in K : TRUE
       IN Len(m[p]) + Occurrences(m, K \ {p})

\* What SizeProfileComputer::Compute may return: paths of at most e field
\* names together, at most n sizes together, at least minLen sizes per path.
WalkerResults(e, n, minLen) ==
  UNION { { m \in [K -> { s \in SeqsUpTo(SizeValues, n - minLen * (Cardinality(K) - 1)) :
                            Len(s) >= minLen }] :
              Occurrences(m, K) <= n }
          : K \in { J \in KeySets(e) : minLen * Cardinality(J) <= n } }

(* --------------------------- the interners ---------------------------- *)

\* The interning state a chain of calls threads through.
Interner == [strings |-> strings_, string_to_id |-> string_to_id_,
             calls |-> stringCalls]

\* One entry of the call history: the text, the id returned, the tables left.
StringCall(s, id, strings, string_to_id) ==
  [text |-> s, id |-> id, strings |-> strings, string_to_id |-> string_to_id]

\* InternString without the lookup: every call pushes the text again.
InternStringNoFind(st, s) ==
  LET pushed == Append(st.strings, s)
      id     == Len(pushed) - 1
      map    == (s :> id) @@ st.string_to_id
  IN [id |-> id,
      st |-> [strings      |-> pushed,
              string_to_id |-> map,
              calls        |-> Append(st.calls, StringCall(s, id, pushed, map))]]

\* InternString: r.id is the value returned, r.st the state left behind.
InternString(st, s) ==
  IF s \in DOMAIN st.string_to_id
  THEN [id |-> st.string_to_id[s],
        st |-> [st EXCEPT !.calls =
                  Append(@, StringCall(s, st.string_to_id[s], st.strings,
                                       st.string_to_id))]]
  ELSE LET pushed == Append(st.strings, s)
           id     == Len(pushed) - 1
           map    == (s :> id) @@ st.string_to_id
       IN [id |-> id,
           st |-> [strings      |-> pushed,
                   string_to_id |-> map,
                   calls        |-> Append(st.calls, StringCall(s, id, pushed, map))]]

\* The location interning state.
Locator == [locations |-> locations_, calls |-> locationCalls]

\* InternLocation numbering from 0: the id is the count before the insertion.
InternLocationFromZero(st, s) ==
  IF s \in DOMAIN st.locations
  THEN [id |-> st.locations[s],
        st |-> [st EXCEPT !.calls = Append(@, [name |-> s, id |-> st.locations[s]])]]
  ELSE LET id == Cardinality(DOMAIN st.locations)
       IN [id |-> id,
           st |-> [locations |-> (s :> id) @@ st.locations,
                   calls     |-> Append(st.calls, [name |-> s, id |-> id])]]

InternLocation(st, s) ==
  IF s \in DOMAIN st.locations
  THEN [id |-> st.locations[s],
        st |-> [st EXCEPT !.calls = Append(@, [name |-> s, id |-> st.locations[s]])]]
  ELSE LET id == Cardinality(DOMAIN st.locations) + 1
       IN [id |-> id,
           st |-> [locations |-> (s :> id) @@ st.locations,
                   calls     |-> Append(st.calls, [name |-> s, id |-> id])]]

(* --------------------------- the statistics --------------------------- *)

RECURSIVE InsertSorted(_, _)
InsertSorted(x, s) ==
  IF s = <<>> THEN <<x>>
  ELSE IF x <= Head(s) THEN <<x>> \o s
  ELSE <<Head(s)>> \o InsertSorted(x, Tail(s))

\* std::sort(samples.begin(), samples.end())
RECURSIVE SortSamples(_)
SortSamples(s) == IF s = <<>> THEN <<>> ELSE InsertSorted(Head(s), SortSamples(Tail(s)))

\* The lower middle for an even count.
MedianIndexLower(count) == (count - 1) \div 2

\* The 0-based index of the median in the sorted samples.
MedianIndex(count) == count \div 2

\* The values of one Sample from its sorted, non-empty samples.
SampleValues(samples) ==
  LET count       == Len(samples)
      max_size    == samples[count]
      min_size    == samples[1]
      median_size == samples[MedianIndex(count) + 1]
      total_size  == SumSeq(samples)
  IN <<count, max_size, min_size, median_size, total_size>>

(* ---------------------------- the profile ----------------------------- *)

\* The sample types with min_size and median declared in each other's place.
SampleTypesSwapped == << <<"protos", "count">>, <<"max_size", "bytes">>,
                         <<"median", "bytes">>, <<"min_size", "bytes">>,
                         <<"total_size", "bytes">> >>

\* The (type, unit) of the sample types, in the order Compute adds them.
SampleTypes == << <<"protos", "count">>, <<"max_size", "bytes">>,
                  <<"min_size", "bytes">>, <<"median", "bytes">>,
                  <<"total_size", "bytes">> >>

RECURSIVE Reverse(_)
Reverse(s) == IF s = <<>> THEN <<>> ELSE Append(Reverse(Tail(s)), Head(s))

\* The names of a field path taken root first.
LocationOrderRootFirst(field_path) == field_path

\* The order in which a field path's names are interned and appended.
LocationOrder(field_path) == Reverse(field_path)

\* InternLocation over names in order: r.ids the ids appended, r.st the state.
RECURSIVE InternLocations(_, _)
InternLocations(st, names) ==
  IF names = <<>> THEN [ids |-> <<>>, st |-> st]
  ELSE LET first == InternLocation(st, Head(names))
           rest  == InternLocations(first.st, Tail(names))
       IN [ids |-> <<first.id>> \o rest.ids, st |-> rest.st]

LocationMsg(id) == [id |-> id, line |-> <<[function_id |-> id]>>]

\* A Function numbered from 0 while its Location is numbered from 1.
FunctionMsgFromZero(id, name) == [id |-> id - 1, name |-> name]

FunctionMsg(id, name) == [id |-> id, name |-> name]

Field(tag, msg) == [tag |-> tag, msg |-> msg]

\* The string table written before the loop over locations_.
NextPhaseTableFirst(p) ==
  CASE p = "samples"      -> "string_table"
    [] p = "string_table" -> "locations"
    [] p = "locations"    -> "serialize"

\* The block of Compute that follows block p.
NextPhase(p) ==
  CASE p = "samples"      -> "locations"
    [] p = "locations"    -> "string_table"
    [] p = "string_table" -> "serialize"

\* A reader's view of a serialized profile: the fields of one tag, in order.
RECURSIVE Decode(_, _)
Decode(bytes, tag) ==
  IF bytes = <<>> THEN <<>>
  ELSE IF Head(bytes).tag = tag THEN <<Head(bytes).msg>> \o Decode(Tail(bytes), tag)
  ELSE Decode(Tail(bytes), tag)

(* ----------------------------- Compute -------------------------------- *)

\* Where control is next from block p: a loop with nothing left is left.
RECURSIVE Goto(_, _, _)
Goto(p, pathsLeft, locsLeft) ==
  IF p = "samples" /\ pathsLeft = {} THEN Goto(NextPhase(p), pathsLeft, locsLeft)
  ELSE IF p = "locations" /\ locsLeft = {} THEN Goto(NextPhase(p), pathsLeft, locsLeft)
  ELSE p

Init ==
  /\ strings_ = <<>>
  /\ string_to_id_ = EmptyMap
  /\ locations_ = EmptyMap
  /\ pc = "idle"
  /\ field_path_to_samples = EmptyMap
  /\ pathsVisited = {}
  /\ locsVisited = {}
  /\ profile = <<>>
  /\ result = <<>>
  /\ invocations = 0
  /\ walked = EmptyMap
  /\ sampleKeys = <<>>
  /\ stringCalls = <<>>
  /\ locationCalls = <<>>

\* Entry of Compute without the reservation of id 0 for the empty string.
ComputeEnterNoEmpty ==
  /\ pc' = "walk"
  /\ invocations' = invocations + 1
  /\ field_path_to_samples' = EmptyMap
  /\ walked' = EmptyMap
  /\ pathsVisited' = {}
  /\ locsVisited' = {}
  /\ profile' = <<>>
  /\ result' = <<>>
  /\ sampleKeys' = <<>>
  /\ UNCHANGED <<strings_, string_to_id_, stringCalls, locations_, locationCalls>>

\* Entry of Compute: PERFETTO_CHECK(InternString("") == 0), fresh locals.
ComputeEnter ==
  LET r == InternString(Interner, "")
  IN /\ strings_' = r.st.strings
     /\ string_to_id_' = r.st.string_to_id
     /\ stringCalls' = r.st.calls
     /\ pc' = IF r.id = 0 THEN "walk" ELSE "aborted"
     /\ invocations' = invocations + 1
     /\ field_path_to_samples' = EmptyMap
     /\ walked' = EmptyMap
     /\ pathsVisited' = {}
     /\ locsVisited' = {}
     /\ profile' = <<>>
     /\ result' = <<>>
     /\ sampleKeys' = <<>>
     /\ UNCHANGED <<locations_, locationCalls>>

\* Main: PprofProfileComputer computer; computer.Compute(...).
ComputeBegin ==
  /\ pc = "idle"
  /\ ComputeEnter

\* A further Compute on the same computer, after the last one returned.
ComputeAgain ==
  /\ pc = "done"
  /\ invocations < MaxInvocations
  /\ ComputeEnter

\* computer.Compute(ptr, size, descriptor) and the empty HeapBuffered profile.
Walker(e, n, minLen) ==
  /\ pc = "walk"
  /\ \E m \in WalkerResults(e, n, minLen) :
        /\ field_path_to_samples' = m
        /\ walked' = m
  /\ pc' = "sample_types"
  /\ UNCHANGED <<strings_, string_to_id_, locations_, pathsVisited, locsVisited,
                 profile, result, invocations, sampleKeys, stringCalls,
                 locationCalls>>

\* The walker honours its contract: no path without a size.
Walk == Walker(MaxPathElements, MaxOccurrences, 1)

\* The walker may record a path with no size.
WalkUnchecked == Walker(MaxProbe, MaxProbe, 0)

\* A small message, for a computer that is used more than once.
WalkSmall == Walker(MaxProbe, MaxProbe, 1)

\* profile->add_sample_type() with its two interned strings, one per step.
AddSampleType ==
  /\ pc = "sample_types"
  /\ LET i    == Len(Decode(profile, "sample_type")) + 1
         type == InternString(Interner, SampleTypes[i][1])
         unit == InternString(type.st, SampleTypes[i][2])
     IN /\ strings_' = unit.st.strings
        /\ string_to_id_' = unit.st.string_to_id
        /\ stringCalls' = unit.st.calls
        /\ profile' = Append(profile,
                        Field("sample_type", [type |-> type.id, unit |-> unit.id]))
        /\ pc' = IF i < Len(SampleTypes) THEN "sample_types"
                 ELSE Goto("samples", DOMAIN field_path_to_samples,
                           DOMAIN locations_ \ locsVisited)
  /\ UNCHANGED <<locations_, field_path_to_samples, pathsVisited, locsVisited,
                 result, invocations, walked, sampleKeys, locationCalls>>

\* One iteration of the loop over field_path_to_samples, samples not empty.
AddSample ==
  /\ pc = "samples"
  /\ \E field_path \in DOMAIN field_path_to_samples \ pathsVisited :
        LET locs    == InternLocations(Locator, LocationOrder(field_path))
            samples == SortSamples(field_path_to_samples[field_path])
        IN /\ Len(samples) > 0
           /\ locations_' = locs.st.locations
           /\ locationCalls' = locs.st.calls
           /\ field_path_to_samples' =
                [field_path_to_samples EXCEPT ![field_path] = samples]
           /\ profile' = Append(profile,
                           Field("sample", [location_id |-> locs.ids,
                                            value |-> SampleValues(samples)]))
           /\ sampleKeys' = Append(sampleKeys, field_path)
           /\ pathsVisited' = pathsVisited \cup {field_path}
           /\ pc' = Goto("samples",
                         DOMAIN field_path_to_samples \ (pathsVisited \cup {field_path}),
                         DOMAIN locs.st.locations \ locsVisited)
  /\ UNCHANGED <<strings_, string_to_id_, locsVisited, result, invocations,
                 walked, stringCalls>>

\* The same iteration when samples is empty: samples[count - 1] and samples[0]
\* read outside the vector. The process dies, or the reads yield anything.
AddSampleOutOfBounds ==
  /\ pc = "samples"
  /\ \E field_path \in DOMAIN field_path_to_samples \ pathsVisited :
        LET locs == InternLocations(Locator, LocationOrder(field_path))
        IN /\ field_path_to_samples[field_path] = <<>>
           /\ locations_' = locs.st.locations
           /\ locationCalls' = locs.st.calls
           /\ pathsVisited' = pathsVisited \cup {field_path}
           /\ \/ /\ pc' = "crashed"
                 /\ profile' = Append(profile,
                                 Field("sample", [location_id |-> locs.ids,
                                                  value |-> <<>>]))
                 /\ sampleKeys' = Append(sampleKeys, field_path)
              \/ \E max_size, min_size, median_size \in GarbageValues :
                   /\ profile' = Append(profile,
                                   Field("sample",
                                         [location_id |-> locs.ids,
                                          value |-> <<0, max_size, min_size,
                                                      median_size, 0>>]))
                   /\ sampleKeys' = Append(sampleKeys, field_path)
                   /\ pc' = Goto("samples",
                                 DOMAIN field_path_to_samples
                                   \ (pathsVisited \cup {field_path}),
                                 DOMAIN locs.st.locations \ locsVisited)
  /\ UNCHANGED <<strings_, string_to_id_, field_path_to_samples, locsVisited,
                 result, invocations, walked, stringCalls>>

\* One iteration of the loop over locations_: a Location and its Function.
AddLocation ==
  /\ pc = "locations"
  /\ \E key \in DOMAIN locations_ \ locsVisited :
        LET value == locations_[key]
            name  == InternString(Interner, key)
        IN /\ strings_' = name.st.strings
           /\ string_to_id_' = name.st.string_to_id
           /\ stringCalls' = name.st.calls
           /\ profile' = profile \o <<Field("location", LocationMsg(value)),
                                      Field("function", FunctionMsg(value, name.id))>>
           /\ locsVisited' = locsVisited \cup {key}
           /\ pc' = Goto("locations",
                         DOMAIN field_path_to_samples \ pathsVisited,
                         DOMAIN locations_ \ (locsVisited \cup {key}))
  /\ UNCHANGED <<locations_, field_path_to_samples, pathsVisited, result,
                 invocations, walked, sampleKeys, locationCalls>>

\* The loop over strings_: profile->add_string_table(strings_[i]).
AddStringTable ==
  /\ pc = "string_table"
  /\ profile' = profile \o [i \in 1..Len(strings_) |-> Field("string_table", strings_[i])]
  /\ pc' = Goto(NextPhase("string_table"),
                DOMAIN field_path_to_samples \ pathsVisited,
                DOMAIN locations_ \ locsVisited)
  /\ UNCHANGED <<strings_, string_to_id_, locations_, field_path_to_samples,
                 pathsVisited, locsVisited, result, invocations, walked,
                 sampleKeys, stringCalls, locationCalls>>

\* return profile.SerializeAsString()
Serialize ==
  /\ pc = "serialize"
  /\ result' = profile
  /\ pc' = "done"
  /\ UNCHANGED <<strings_, string_to_id_, locations_, field_path_to_samples,
                 pathsVisited, locsVisited, profile, invocations, walked,
                 sampleKeys, stringCalls, locationCalls>>

\* Main: one computer, one Compute, a walker that honours its contract.
Next ==
  \/ ComputeBegin
  \/ Walk
  \/ AddSampleType
  \/ AddSample
  \/ AddLocation
  \/ AddStringTable
  \/ Serialize

Spec == Init /\ [][Next]_vars

\* The same call over a walker result that may hold a path with no size.
NextEmptySizes ==
  \/ ComputeBegin
  \/ WalkUnchecked
  \/ AddSampleType
  \/ AddSample
  \/ AddSampleOutOfBounds
  \/ AddLocation
  \/ AddStringTable
  \/ Serialize

SpecEmptySizes == Init /\ [][NextEmptySizes]_vars

\* One computer whose Compute is called again after it returned.
NextReuse ==
  \/ ComputeBegin
  \/ ComputeAgain
  \/ WalkSmall
  \/ AddSampleType
  \/ AddSample
  \/ AddLocation
  \/ AddStringTable
  \/ Serialize

SpecReuse == Init /\ [][NextReuse]_vars

(* ------------------------------ claims -------------------------------- *)

Range(s) == { s[i] : i \in DOMAIN s }

\* The Samples of a serialized profile; the k-th came from sampleKeys[k].
SamplesOf(bytes) == Decode(bytes, "sample")

\* The k-th smallest (k from 0) of a non-empty list, duplicates counted.
KthSmallest(sizes, k) ==
  CHOOSE v \in Range(sizes) :
    /\ Cardinality({ i \in DOMAIN sizes : sizes[i] < v }) <= k
    /\ Cardinality({ i \in DOMAIN sizes : sizes[i] <= v }) > k

Largest(sizes) == CHOOSE v \in Range(sizes) : \A w \in Range(sizes) : w <= v

Smallest(sizes) == CHOOSE v \in Range(sizes) : \A w \in Range(sizes) : v <= w

\* C1: every Sample built from a non-empty sizes list of n elements carries
\* [n, max, min, the element at index n div 2 of the ascending order, sum],
\* in that order, both while the profile is assembled and in what Compute
\* returns.
C1_SampleValues ==
  \A bytes \in {profile, result} :
    LET samples == SamplesOf(bytes)
    IN \A k \in DOMAIN samples :
         LET sizes == walked[sampleKeys[k]]
             n     == Len(sizes)
         IN n >= 1 =>
              samples[k].value =
                <<n, Largest(sizes), Smallest(sizes), KthSmallest(sizes, n \div 2),
                  SumSeq(sizes)>>

\* An unsorted list of even length was returned with its upper middle as median.
C1_Witness ==
  /\ pc = "done"
  /\ \E k \in DOMAIN SamplesOf(result) :
       /\ walked[sampleKeys[k]] = <<2, 1>>
       /\ SamplesOf(result)[k].value = <<2, 2, 1, 2, 3>>

\* C2: once Compute has started, the first InternString call was for the
\* empty string and returned 0, index 0 of strings_ is the empty string in
\* every later state, and so is index 0 of the string table returned.
C2_EmptyStringIsZero ==
  pc # "idle" =>
    /\ Len(stringCalls) >= 1
    /\ stringCalls[1].text = ""
    /\ stringCalls[1].id = 0
    /\ Len(strings_) >= 1
    /\ strings_[1] = ""
    /\ "" \in DOMAIN string_to_id_
    /\ string_to_id_[""] = 0
    /\ pc = "done" => /\ Len(Decode(result, "string_table")) >= 1
                      /\ Decode(result, "string_table")[1] = ""

\* Field names were interned as strings after the sample types, and the
\* table returned still starts with the empty string.
C2_Witness ==
  /\ pc = "done"
  /\ Len(strings_) > 7
  /\ strings_[Len(strings_)] = "a"
  /\ Decode(result, "string_table")[1] = ""

\* The tables the i-th InternString call found: those the call before left.
TablesBefore(i) ==
  IF i = 1 THEN [strings |-> <<>>, string_to_id |-> EmptyMap]
  ELSE [strings |-> stringCalls[i - 1].strings,
        string_to_id |-> stringCalls[i - 1].string_to_id]

\* C3: over the whole history of InternString calls: distinct texts never
\* share an id; a call for a text seen before returns the id of the first
\* call and leaves strings_ and string_to_id_ as it found them; a call for a
\* new text returns the length strings_ had, appends the text there and
\* adds only that text to string_to_id_.
C3_InternString ==
  /\ \A i \in DOMAIN stringCalls :
       LET c      == stringCalls[i]
           before == TablesBefore(i)
       IN IF \E j \in 1..(i - 1) : stringCalls[j].text = c.text
          THEN /\ c.strings = before.strings
               /\ c.string_to_id = before.string_to_id
          ELSE /\ c.id = Len(before.strings)
               /\ c.strings = Append(before.strings, c.text)
               /\ c.text \notin DOMAIN before.string_to_id
               /\ c.string_to_id = (c.text :> c.id) @@ before.string_to_id
  /\ \A i \in DOMAIN stringCalls :
       \A j \in 1..(i - 1) :
         (stringCalls[i].text = stringCalls[j].text)
           <=> (stringCalls[i].id = stringCalls[j].id)
  /\ stringCalls # <<>> =>
       /\ strings_ = stringCalls[Len(stringCalls)].strings
       /\ string_to_id_ = stringCalls[Len(stringCalls)].string_to_id

\* "bytes" was interned as a unit, again as a unit, and again as a Function
\* name, and "a" was interned as a new text after it.
C3_Witness ==
  /\ pc = "done"
  /\ Cardinality({ i \in DOMAIN stringCalls : stringCalls[i].text = "bytes" }) >= 5
  /\ \E i \in DOMAIN stringCalls :
       stringCalls[i].text = "a" /\ stringCalls[i].id = Len(SampleTypes) + 3

\* The call in which a location name was first seen.
FirstLocationCall(i) ==
  CHOOSE j \in 1..i :
    /\ locationCalls[j].name = locationCalls[i].name
    /\ \A h \in 1..(j - 1) : locationCalls[h].name # locationCalls[i].name

\* C4: over the whole history of InternLocation calls, the id returned for a
\* name is the number of distinct names seen up to the first call for that
\* name (the k-th distinct name gets k), so ids start at 1 and grow by first
\* sight; locations_ holds exactly these ids and maps no name to 0.
C4_LocationIds ==
  /\ \A i \in DOMAIN locationCalls :
       /\ locationCalls[i].id =
            Cardinality({ locationCalls[j].name : j \in 1..FirstLocationCall(i) })
       /\ locationCalls[i].id >= 1
       /\ locationCalls[i].name \in DOMAIN locations_
       /\ locations_[locationCalls[i].name] = locationCalls[i].id
  /\ DOMAIN locations_ = { locationCalls[i].name : i \in DOMAIN locationCalls }
  /\ \A name \in DOMAIN locations_ : locations_[name] # 0

\* Two names were interned, the second after a repeat of the first.
C4_Witness ==
  /\ Len(locationCalls) >= 3
  /\ locationCalls[1].name = locationCalls[2].name
  /\ locationCalls[3].name # locationCalls[1].name
  /\ locationCalls[3].id = 2

\* The texts of a call history in the order of their first appearance.
RECURSIVE FirstSeenFrom(_, _, _)
FirstSeenFrom(texts, i, front) ==
  IF i > Len(texts) THEN front
  ELSE FirstSeenFrom(texts, i + 1,
                     IF \E h \in DOMAIN front : front[h] = texts[i] THEN front
                     ELSE Append(front, texts[i]))

FirstSeen(texts) == FirstSeenFrom(texts, 1, <<>>)

\* The field name a location id was handed out for.
NameOfLocation(id) ==
  CHOOSE name \in { locationCalls[i].name : i \in DOMAIN locationCalls } :
    \E i \in DOMAIN locationCalls :
      locationCalls[i].name = name /\ locationCalls[i].id = id

\* C5: the string table Compute returns is, in id order, the texts interned
\* in order of first sight up to the return; every string_table field lies
\* after every location and function field; every type, unit and Function
\* name id indexes the table at the text it was interned for.
C5_StringTableLast ==
  pc = "done" =>
    LET table     == Decode(result, "string_table")
        types     == Decode(result, "sample_type")
        functions == Decode(result, "function")
    IN /\ table = strings_
       /\ table = FirstSeen([i \in DOMAIN stringCalls |-> stringCalls[i].text])
       /\ \A j \in DOMAIN result :
            result[j].tag = "string_table" =>
              \A i \in DOMAIN result :
                result[i].tag \in {"location", "function"} => i < j
       /\ \A k \in DOMAIN types :
            /\ types[k].type + 1 \in DOMAIN table
            /\ types[k].unit + 1 \in DOMAIN table
            /\ table[types[k].type + 1] = SampleTypes[k][1]
            /\ table[types[k].unit + 1] = SampleTypes[k][2]
       /\ \A k \in DOMAIN functions :
            /\ functions[k].name + 1 \in DOMAIN table
            /\ table[functions[k].name + 1] = NameOfLocation(functions[k].id)

\* A Function name was interned as a new string during the location loop and
\* is in the table returned.
C5_Witness ==
  /\ pc = "done"
  /\ \E k \in DOMAIN Decode(result, "function") :
       LET fn == Decode(result, "function")[k]
       IN /\ fn.name >= 8
          /\ Decode(result, "string_table")[fn.name + 1] = "a"

\* The field names of a walker result.
NamesOf(m) == UNION { Range(field_path) : field_path \in DOMAIN m }

\* C6: the profile returned decodes to 5 sample types, in order the count
\* (protos/count), max_size, min_size, median and total_size, all but the
\* first in bytes; it has as many Location records as Function records as
\* there are distinct field names in the paths of the SampleSet.
C6_RoundTrip ==
  pc = "done" =>
    LET table == Decode(result, "string_table")
        types == Decode(result, "sample_type")
    IN /\ Len(types) = 5
       /\ [k \in 1..5 |-> <<table[types[k].type + 1], table[types[k].unit + 1]>>]
            = << <<"protos", "count">>, <<"max_size", "bytes">>,
                 <<"min_size", "bytes">>, <<"median", "bytes">>,
                 <<"total_size", "bytes">> >>
       /\ Len(Decode(result, "location")) = Cardinality(NamesOf(walked))
       /\ Len(Decode(result, "function")) = Cardinality(NamesOf(walked))

\* A profile of two paths sharing a name: three path elements, two names.
C6_Witness ==
  /\ pc = "done"
  /\ Cardinality(DOMAIN walked) = 2
  /\ Cardinality(NamesOf(walked)) = 2
  /\ Len(Decode(result, "location")) = 2
  /\ \E field_path \in DOMAIN walked : Len(field_path) = 2

\* C7: the location stack of every Sample is its path read leaf to root
\* through locations_, one id per path element, and locations_ gives
\* different field names different ids.
C7_LocationStack ==
  /\ \A bytes \in {profile, result} :
       LET samples == SamplesOf(bytes)
       IN \A k \in DOMAIN samples :
         LET field_path == sampleKeys[k]
             stack      == samples[k].location_id
         IN /\ Len(stack) = Len(field_path)
            /\ \A i \in DOMAIN stack :
                 /\ field_path[Len(field_path) - i + 1] \in DOMAIN locations_
                 /\ stack[i] = locations_[field_path[Len(field_path) - i + 1]]
  /\ \A m, n \in DOMAIN locations_ : m # n => locations_[m] # locations_[n]

\* The paths ["a"] and ["bytes", "a"] were both sampled; "a" has one id in
\* both stacks and the stack of the second starts with it.
C7_Witness ==
  /\ pc = "done"
  /\ \E j, k \in DOMAIN SamplesOf(result) :
       /\ sampleKeys[j] = <<"a">>
       /\ sampleKeys[k] = <<"bytes", "a">>
       /\ SamplesOf(result)[k].location_id[1] = SamplesOf(result)[j].location_id[1]
       /\ SamplesOf(result)[k].location_id[2] # SamplesOf(result)[j].location_id[1]

\* C10: in the profile returned, every location id of a Sample has exactly
\* one Location record; every Location has one line, whose function id is
\* the Location's id; exactly one Function has that id, and its name indexes
\* the string table at the field name the id was interned for; Location ids
\* are pairwise distinct and so are Function ids.
C10_ReferentialIntegrity ==
  pc = "done" =>
    LET table     == Decode(result, "string_table")
        locations == Decode(result, "location")
        functions == Decode(result, "function")
        samples   == SamplesOf(result)
    IN /\ \A k \in DOMAIN samples :
            \A id \in Range(samples[k].location_id) :
              Cardinality({ i \in DOMAIN locations : locations[i].id = id }) = 1
       /\ \A i \in DOMAIN locations :
            /\ Len(locations[i].line) = 1
            /\ locations[i].line[1].function_id = locations[i].id
            /\ Cardinality({ j \in DOMAIN functions :
                               functions[j].id = locations[i].id }) = 1
            /\ \A j \in DOMAIN functions :
                 functions[j].id = locations[i].id =>
                   /\ functions[j].name + 1 \in DOMAIN table
                   /\ table[functions[j].name + 1] = NameOfLocation(locations[i].id)
       /\ \A i, j \in DOMAIN locations : i # j => locations[i].id # locations[j].id
       /\ \A i, j \in DOMAIN functions : i # j => functions[i].id # functions[j].id

\* Two Samples, two Locations and two Functions were returned.
C10_Witness ==
  /\ pc = "done"
  /\ Len(SamplesOf(result)) = 2
  /\ Len(Decode(result, "location")) = 2
  /\ Len(Decode(result, "function")) = 2

\* C8: when the SampleSet holds a path with an empty sizes list, Compute
\* aborts: once the sample loop has reached such a path the process is dead,
\* no Sample with values is built for it and no profile is returned.
C8_EmptySizesAbort ==
  /\ \A field_path \in DOMAIN walked :
       (walked[field_path] = <<>> /\ field_path \in pathsVisited) => pc = "crashed"
  /\ \A k \in DOMAIN sampleKeys :
       walked[sampleKeys[k]] = <<>> => SamplesOf(profile)[k].value = <<>>
  /\ (\E field_path \in DOMAIN walked : walked[field_path] = <<>>) =>
       (pc # "done" /\ result = <<>>)

\* The strings the sample types intern in every call.
FixedStrings == {""} \cup UNION { Range(SampleTypes[k]) : k \in DOMAIN SampleTypes }

\* C9: no interning state is shared between Compute calls: what a second
\* call on the same computer returns holds only strings of that call (the
\* empty string, the sample-type strings, its own field names) and one
\* Location and one Function per field name of its own SampleSet.
C9_NoSharingAcrossCalls ==
  (pc = "done" /\ invocations >= 2) =>
    /\ Range(Decode(result, "string_table")) \subseteq FixedStrings \cup NamesOf(walked)
    /\ Len(Decode(result, "location")) = Cardinality(NamesOf(walked))
    /\ Len(Decode(result, "function")) = Cardinality(NamesOf(walked))
    /\ \A k \in DOMAIN Decode(result, "location") :
         NameOfLocation(Decode(result, "location")[k].id) \in NamesOf(walked)

=============================================================================
